---- MODULE Spec2Model ----
(***************************************************************************)
(* A model of the FGO servant scraper (app/scraper.py) and of the read API *)
(* that serves the file the scraper writes (app/main.py).                  *)
(*                                                                         *)
(* Text is a sequence of characters (one-character strings, or whole words *)
(* where the characters do not matter), an HTML row is the sequence of its *)
(* cells, a table the sequence of its rows (header first), and the dataset *)
(* file a sequence of JSON tokens, so that a truncated file is a prefix.   *)
(***************************************************************************)
EXTENDS Integers, Sequences, FiniteSets, TLC

VARIABLES
    page,       \* the markup the wiki serves at servant_list_url
    pc,         \* where the scrape run (scraper.main) is
    servants,   \* scraper.main's `servants`, the extracted dataset
    exc,        \* the exception that escaped scraper.main, or "None"
    file,       \* data/servants.json
    prior,      \* history: data/servants.json as the run found it
    loaded,     \* what the API's last load_servant_data() gave
    resp        \* the API's last response

vars == <<page, pc, servants, exc, file, prior, loaded, resp>>

(***************************************************************************)
(* Bounds of the model.                                                    *)
(***************************************************************************)
MaxTables == 2
MaxRows == 1
MaxId == 3

SeqUpTo(S, n) == UNION {[1..k -> S] : k \in 0..n}

(***************************************************************************)
(* Text helpers: str.strip / get_text(strip=True), and int().              *)
(***************************************************************************)
Whitespace == {" "}

RECURSIVE lstrip(_)
lstrip(s) ==
    IF s # <<>> /\ Head(s) \in Whitespace THEN lstrip(Tail(s)) ELSE s

RECURSIVE rstrip(_)
rstrip(s) ==
    IF s # <<>> /\ s[Len(s)] \in Whitespace
    THEN rstrip(SubSeq(s, 1, Len(s) - 1))
    ELSE s

strip(s) == rstrip(lstrip(s))

Digits == ("0" :> 0) @@ ("1" :> 1) @@ ("2" :> 2) @@ ("3" :> 3) @@ ("4" :> 4)
          @@ ("5" :> 5) @@ ("6" :> 6) @@ ("7" :> 7) @@ ("8" :> 8) @@ ("9" :> 9)

\* int(s) raises ValueError unless s, stripped, is a non-empty run of digits
int_raises(s) ==
    LET t == strip(s)
    IN  t = <<>> \/ \E i \in 1..Len(t) : t[i] \notin DOMAIN Digits

RECURSIVE digits_value(_)
digits_value(t) ==
    IF t = <<>> THEN 0
    ELSE digits_value(SubSeq(t, 1, Len(t) - 1)) * 10 + Digits[t[Len(t)]]

int(s) == digits_value(strip(s))

(***************************************************************************)
(* Markup.  A cell has its attributes, the number of img elements in it,   *)
(* the texts of its a elements and the text outside them.                  *)
(***************************************************************************)
NoAttrs == [n \in {} |-> <<>>]
SortValue(v) == [n \in {"data-sort-value"} |-> v]

Cell(attrs, imgs, a, text) == [attrs |-> attrs, imgs |-> imgs, a |-> a, text |-> text]

Linked(w) == Cell(NoAttrs, 0, <<<<w>>>>, <<>>)
Plain(t) == Cell(NoAttrs, 0, <<>>, t)

HeaderRow == <<Plain(<<"Rarity">>), Plain(<<"Name">>), Plain(<<"Class">>)>>

RowSortValue == <<Cell(SortValue(<<"5">>), 0, <<>>, <<>>), Linked("Artoria"), Linked("Saber")>>
RowIcons == <<Cell(NoAttrs, 3, <<>>, <<>>), Linked("Artoria"), Linked("Saber")>>
RowPlain == <<Plain(<<"x">>), Plain(<<" ", "Mash", " ">>), Plain(<<"Shielder">>)>>
RowTwoCells == <<Cell(SortValue(<<"4">>), 0, <<>>, <<>>), Linked("Emiya")>>
RowBadSortValue == <<Cell(SortValue(<<"a", "b", "c">>), 2, <<>>, <<>>), Linked("Emiya"), Linked("Archer")>>
RowBlankName == <<Cell(SortValue(<<" ", "1", "2">>), 0, <<>>, <<>>),
                  Cell(NoAttrs, 0, <<<<" ">>>>, <<"Medea">>), Linked("Caster")>>

RowSet == {RowSortValue, RowIcons, RowPlain, RowTwoCells, RowBadSortValue, RowBlankName}

\* a table with no tr at all, or a header row and up to MaxRows data rows
Tables == {<<>>} \cup {<<HeaderRow>> \o rs : rs \in SeqUpTo(RowSet, MaxRows)}

\* soup.title: no title element; a title with text; a title whose .string is None
Titles == {"NoTitle", "Text", "NoString"}

\* what requests.get and raise_for_status give: a page, or a RequestException
\* (no connection, an error status).  The title is read only when the page has
\* no table.
Page(title, tables) == [fetch |-> "ok", title |-> title, tables |-> tables]
FetchError == [fetch |-> "RequestException", title |-> "NoTitle", tables |-> <<>>]

Pages ==
    {FetchError}
    \cup {Page(t, <<>>) : t \in Titles}
    \cup {Page("Text", ts) : ts \in SeqUpTo(Tables, MaxTables) \ {<<>>}}

(***************************************************************************)
(* FGOScraper.get_basic_servant_data: the row loop.                        *)
(***************************************************************************)
\* rarity_col: the data-sort-value attribute if present, else the img count
RarityRaises(cell) ==
    "data-sort-value" \in DOMAIN cell.attrs /\ int_raises(cell.attrs["data-sort-value"])

RarityIconsOnly(cell) == cell.imgs
Rarity(cell) ==
    IF "data-sort-value" \in DOMAIN cell.attrs
    THEN int(cell.attrs["data-sort-value"])
    ELSE cell.imgs

\* the text of the first a element if there is one, else the cell's text
LinkOrText(cell) ==
    IF cell.a # <<>> THEN strip(cell.a[1]) ELSE strip(cell.text)

NewIdZeroBased(servants_) == Len(servants_)
NewId(servants_) == Len(servants_) + 1

ServantRecordIdFromCell(servants_, row) ==
    [id |-> Rarity(row[1]), name |-> LinkOrText(row[2]),
     class |-> LinkOrText(row[3]), rarity |-> Rarity(row[1])]
ServantRecord(servants_, row) ==
    [id |-> NewId(servants_), name |-> LinkOrText(row[2]),
     class |-> LinkOrText(row[3]), rarity |-> Rarity(row[1])]

ProcessRowRarityDefault(servants_, row) ==
    IF Len(row) >= 3
    THEN IF LinkOrText(row[2]) # <<>> /\ LinkOrText(row[3]) # <<>>
         THEN Append(servants_,
                     [id |-> NewId(servants_), name |-> LinkOrText(row[2]),
                      class |-> LinkOrText(row[3]),
                      rarity |-> IF RarityRaises(row[1]) THEN 0 ELSE Rarity(row[1])])
         ELSE servants_
    ELSE servants_

\* one iteration of the row loop: the list after the row
ProcessRow(servants_, row) ==
    IF Len(row) >= 3
    THEN IF RarityRaises(row[1])
         THEN servants_                                  \* except Exception: continue
         ELSE IF LinkOrText(row[2]) # <<>> /\ LinkOrText(row[3]) # <<>>
              THEN Append(servants_, ServantRecord(servants_, row))
              ELSE servants_
    ELSE servants_

RECURSIVE ProcessRows(_, _)
ProcessRows(servants_, rows) ==
    IF rows = <<>> THEN servants_
    ELSE ProcessRows(ProcessRow(servants_, Head(rows)), Tail(rows))

\* table.find_all('tr')[1:]
DataRows(table) == IF table = <<>> THEN <<>> ELSE Tail(table)

RECURSIVE ProcessTables(_, _)
ProcessTables(servants_, tables) ==
    IF tables = <<>> THEN servants_
    ELSE ProcessTables(ProcessRows(servants_, DataRows(Head(tables))), Tail(tables))

(***************************************************************************)
(* The dataset file.  json.dump writes "[", one object per record and "]"; *)
(* an object is the list of its members, a member a <<key, value>> pair.   *)
(***************************************************************************)
Range(f) == {f[i] : i \in DOMAIN f}

json_object(servant) ==
    <<<<"id", servant.id>>, <<"name", servant.name>>,
      <<"class", servant.class>>, <<"rarity", servant.rarity>>>>

\* json.load of an object: a dict, the last member of a key winning
dict(members) ==
    [k \in {m[1] : m \in Range(members)} |->
        members[CHOOSE i \in DOMAIN members :
                    /\ members[i][1] = k
                    /\ \A j \in DOMAIN members : members[j][1] = k => j <= i][2]]

OpenBracket == [t |-> "["]
CloseBracket == [t |-> "]"]
BadByte == [t |-> "0xff"]

json_dump(data) ==
    <<OpenBracket>> \o [i \in 1..Len(data) |-> [t |-> "{}", v |-> json_object(data[i])]]
                    \o <<CloseBracket>>

\* json.JSONDecodeError unless the text is one complete list of objects
json_raises(text) ==
    \/ Len(text) < 2
    \/ text[1].t # "["
    \/ text[Len(text)].t # "]"
    \/ \E i \in 2..(Len(text) - 1) : text[i].t # "{}"

json_load(text) == [i \in 1..(Len(text) - 2) |-> dict(text[i + 1].v)]

\* f.read() of a file opened with encoding='utf-8'
utf8_raises(content) == \E i \in 1..Len(content) : content[i].t = "0xff"

File(readable, content) == [exists |-> TRUE, readable |-> readable, content |-> content]
AbsentFile == [exists |-> FALSE, readable |-> FALSE, content |-> <<>>]

Servant(id, name, class, rarity) ==
    [id |-> id, name |-> <<name>>, class |-> <<class>>, rarity |-> rarity]

OldData == <<Servant(1, "Mash", "Shielder", 3), Servant(2, "Artoria", "Saber", 5)>>
OldFile == File(TRUE, json_dump(OldData))

\* datasets a file may hold; the last one repeats an id
PriorDatasets ==
    { <<>>, <<Servant(1, "Mash", "Shielder", 3)>>, OldData,
      <<Servant(2, "Artoria", "Saber", 5), Servant(2, "Altria", "Lancer", 5)>> }

InitFiles ==
    {AbsentFile}
    \cup {File(TRUE, json_dump(d)) : d \in PriorDatasets}
    \cup { File(FALSE, json_dump(OldData)),                       \* no read permission
           File(TRUE, <<OpenBracket, BadByte, CloseBracket>>),    \* not UTF-8
           File(TRUE, SubSeq(json_dump(OldData), 1, 2)),          \* truncated JSON
           File(TRUE, <<>>) }                                     \* empty file

(***************************************************************************)
(* main.load_servant_data: what it returns, or the exception it lets out.  *)
(***************************************************************************)
Returned(value) == [raised |-> "None", value |-> value]
Raised(e) == [raised |-> e, value |-> <<>>]

load_servant_data(f) ==
    IF ~f.exists THEN Returned(<<>>)                       \* except FileNotFoundError
    ELSE IF ~f.readable THEN Raised("PermissionError")
    ELSE IF utf8_raises(f.content) THEN Raised("UnicodeDecodeError")
    ELSE IF json_raises(f.content) THEN Returned(<<>>)     \* except json.JSONDecodeError
    ELSE Returned(json_load(f.content))

(***************************************************************************)
(* The scrape run: scraper.main.                                           *)
(***************************************************************************)
NoException == [type |-> "None", from |-> "None"]
Exception(type, from) == [type |-> type, from |-> from]

NotLoaded == [raised |-> "NotCalled", value |-> <<>>]
NoResponse == [op |-> "none", id |-> 0, status |-> 0, body |-> <<>>]

\* servants = scraper.get_basic_servant_data()
get_basic_servant_data ==
    /\ pc = "start"
    /\ \/ /\ page.fetch = "RequestException"         \* except requests.RequestException
          /\ servants' = <<>>
          /\ pc' = "returned"
          /\ exc' = exc
       \/ /\ page.fetch = "ok"                       \* no servant tables found
          /\ page.tables = <<>>
          /\ page.title # "NoString"
          /\ servants' = <<>>
          /\ pc' = "returned"
          /\ exc' = exc
       \/ /\ page.fetch = "ok"                       \* "Page title: " + None
          /\ page.tables = <<>>
          /\ page.title = "NoString"
          /\ servants' = servants
          /\ pc' = "raised"
          /\ exc' = Exception("TypeError", "get_basic_servant_data")
       \/ /\ page.fetch = "ok"
          /\ page.tables # <<>>
          /\ servants' = ProcessTables(<<>>, page.tables)
          /\ pc' = "returned"
          /\ exc' = exc
    /\ UNCHANGED <<page, file, prior, loaded, resp>>

\* main: if servants
ShouldSaveAlways(servants_) == TRUE
ShouldSave(servants_) == servants_ # <<>>

\* save_to_json: os.makedirs and open(filename, 'w'), which empties the file
save_open ==
    /\ pc = "returned"
    /\ ShouldSave(servants)
    /\ \/ /\ file' = File(IF file.exists THEN file.readable ELSE TRUE, <<>>)
          /\ pc' = "writing"
          /\ exc' = exc
       \/ /\ file' = file                            \* OSError, logged and re-raised
          /\ pc' = "raised"
          /\ exc' = Exception("OSError", "save_to_json")
    /\ UNCHANGED <<page, servants, prior, loaded, resp>>

\* save_to_json: json.dump, the text reaching the file piece by piece
save_write ==
    /\ pc = "writing"
    /\ Len(file.content) < Len(json_dump(servants))
    /\ \/ /\ file' = [file EXCEPT !.content =
                         Append(@, json_dump(servants)[Len(@) + 1])]
          /\ pc' = pc
          /\ exc' = exc
       \/ /\ file' = file                            \* OSError, logged and re-raised
          /\ pc' = "raised"
          /\ exc' = Exception("OSError", "save_to_json")
    /\ UNCHANGED <<page, servants, prior, loaded, resp>>

\* save_to_json: the with block ends, the run is over
save_close ==
    /\ pc = "writing"
    /\ Len(file.content) = Len(json_dump(servants))
    /\ pc' = "done"
    /\ UNCHANGED <<page, servants, exc, file, prior, loaded, resp>>

\* main: else: logger.error("No servants were scraped!")
no_servants ==
    /\ pc = "returned"
    /\ ~ShouldSave(servants)
    /\ pc' = "done"
    /\ UNCHANGED <<page, servants, exc, file, prior, loaded, resp>>

(***************************************************************************)
(* The read API: main.get_servants and main.get_servant.                   *)
(***************************************************************************)
Response(op, id, status, body) == [op |-> op, id |-> id, status |-> status, body |-> body]

\* the first servant whose id is servant_id, as the for loop finds it
FirstIndex(servants_, servant_id) ==
    CHOOSE i \in 1..Len(servants_) :
        /\ servants_[i].id = servant_id
        /\ \A j \in 1..(i - 1) : servants_[j].id # servant_id

get_servants ==
    /\ loaded' = load_servant_data(file)
    /\ resp' = IF loaded'.raised # "None" THEN Response("get_servants", 0, 500, <<>>)
               ELSE IF loaded'.value = <<>> THEN Response("get_servants", 0, 404, <<>>)
               ELSE Response("get_servants", 0, 200, loaded'.value)
    /\ UNCHANGED <<page, pc, servants, exc, file, prior>>

get_servant(servant_id) ==
    /\ loaded' = load_servant_data(file)
    /\ resp' = IF loaded'.raised # "None"
               THEN Response("get_servant", servant_id, 500, <<>>)
               ELSE IF \E i \in 1..Len(loaded'.value) : loaded'.value[i].id = servant_id
               THEN Response("get_servant", servant_id, 200,
                             <<loaded'.value[FirstIndex(loaded'.value, servant_id)]>>)
               ELSE Response("get_servant", servant_id, 404, <<>>)
    /\ UNCHANGED <<page, pc, servants, exc, file, prior>>

(***************************************************************************)
(* Specifications.  Spec is one scrape run over every page of the bounds,   *)
(* with a dataset file of an earlier run in place; SpecStore is a scrape   *)
(* run of a page of one table at most next to the read API, over every     *)
(* kind of dataset file.                                                   *)
(***************************************************************************)
StorePages == {p \in Pages : Len(p.tables) <= 1}
ServantIds == 0..MaxId

InitRun(pages, files) ==
    /\ page \in pages
    /\ file \in files
    /\ prior = file
    /\ pc = "start"
    /\ servants = <<>>
    /\ exc = NoException
    /\ loaded = NotLoaded
    /\ resp = NoResponse

Init == InitRun(Pages, {OldFile})

Next ==
    \/ get_basic_servant_data
    \/ save_open
    \/ save_write
    \/ save_close
    \/ no_servants

Spec == Init /\ [][Next]_vars

InitStore == InitRun(StorePages, InitFiles)

NextStore ==
    \/ Next
    \/ get_servants
    \/ \E servant_id \in ServantIds : get_servant(servant_id)

SpecStore == InitStore /\ [][NextStore]_vars

(***************************************************************************)
(* Extraction claims, checked under Spec.                                  *)
(***************************************************************************)
Extracted == page.fetch = "ok" /\ pc \in {"returned", "writing", "done"}

RECURSIVE AllDataRows(_)
AllDataRows(tables) ==
    IF tables = <<>> THEN <<>>
    ELSE (IF Head(tables) = <<>> THEN <<>> ELSE Tail(Head(tables)))
         \o AllDataRows(Tail(tables))

Ids(servants_) == [i \in 1..Len(servants_) |-> servants_[i].id]

\* the first cell as the claim reads it: its sort value, else its text
FirstCellText(row) ==
    IF "data-sort-value" \in DOMAIN row[1].attrs
    THEN row[1].attrs["data-sort-value"]
    ELSE row[1].text

FirstCellIsInteger(row) == row # <<>> /\ ~int_raises(FirstCellText(row))

FirstCellIntegers == {int(FirstCellText(r)) : r \in {q \in RowSet : FirstCellIsInteger(q)}}

ParsedIds(expected_max_id) ==
    LET Keep(row) == FirstCellIsInteger(row) /\ int(FirstCellText(row)) <= expected_max_id
        kept == SelectSeq(AllDataRows(page.tables), Keep)
    IN  [i \in 1..Len(kept) |-> int(FirstCellText(kept[i]))]

YieldsRecord(row) ==
    /\ Len(row) >= 3
    /\ "data-sort-value" \in DOMAIN row[1].attrs => ~int_raises(row[1].attrs["data-sort-value"])
    /\ strip(IF row[2].a # <<>> THEN row[2].a[1] ELSE row[2].text) # <<>>
    /\ strip(IF row[3].a # <<>> THEN row[3].a[1] ELSE row[3].text) # <<>>

YieldingRows == SelectSeq(AllDataRows(page.tables), YieldsRecord)

C7_IdsStrictlyAscending ==
    /\ \A i, j \in 1..Len(servants) : i < j => servants[i].id < servants[j].id
    /\ pc = "done" /\ servants # <<>> =>
          LET saved == load_servant_data(file).value
          IN  /\ Len(saved) = Len(servants)
              /\ \A i, j \in 1..Len(saved) : i < j => saved[i].id < saved[j].id

C7_Witness ==
    /\ pc = "done"
    /\ Len(servants) = 2
    /\ Len(load_servant_data(file).value) = 2

\* a row the loop skips whole: fewer than 3 cells, or an exception in the try
BadRow(row) ==
    \/ Len(row) < 3
    \/ "data-sort-value" \in DOMAIN row[1].attrs /\ int_raises(row[1].attrs["data-sort-value"])

WithoutBadRows(tables) ==
    LET Good(row) == ~BadRow(row)
    IN  [t \in 1..Len(tables) |->
            IF tables[t] = <<>> THEN <<>>
            ELSE <<Head(tables[t])>> \o SelectSeq(Tail(tables[t]), Good)]

\* C8: a row of fewer than 3 cells and a row whose processing raises emit no
\* record and stop nothing: the output is that of the page without them.
C8_RowIsolation ==
    Extracted => servants = ProcessTables(<<>>, WithoutBadRows(page.tables))

C8_Witness ==
    /\ pc = "returned"
    /\ \/ page.tables = <<<<HeaderRow, RowTwoCells>>, <<HeaderRow, RowIcons>>>>
       \/ page.tables = <<<<HeaderRow, RowBadSortValue>>, <<HeaderRow, RowIcons>>>>
    /\ Len(servants) = 1
    /\ servants[1].name = <<"Artoria">>

C5_OnlySaveFailureEscapes ==
    pc = "raised" => exc.from = "save_to_json"

IsPrefix(s, t) == Len(s) <= Len(t) /\ s = SubSeq(t, 1, Len(s))

\* C10: with no record extracted the run writes nothing and the file stays as
\* it was; the file changes only under a save of a non-empty dataset, and a
\* finished save leaves that dataset in it.
C10_NoWriteWhenEmpty ==
    /\ servants = <<>> => file = prior
    /\ file # prior =>
          /\ pc \in {"writing", "done", "raised"}
          /\ servants # <<>>
          /\ IsPrefix(file.content, json_dump(servants))
    /\ pc = "done" /\ servants # <<>> => file.content = json_dump(servants)

C10_Witness ==
    /\ pc = "done"
    /\ servants = <<>>
    /\ page.fetch = "ok"
    /\ page.tables # <<>>
    /\ prior = OldFile
    /\ file = OldFile

(***************************************************************************)
(* Store and API claims, checked under SpecStore.                          *)
(***************************************************************************)
\* a file that holds a dataset: UTF-8 text that is one JSON list of objects
HoldsDataset(f) == f.exists /\ ~utf8_raises(f.content) /\ ~json_raises(f.content)

\* the dataset of a file, the empty one for a missing, unreadable or corrupt file
DatasetOf(f) == IF HoldsDataset(f) /\ f.readable THEN json_load(f.content) ELSE <<>>

\* C1 as stated: over a file that held D_old, a reader gets all of D_old or
\* all of the dataset being saved, nothing else.
C1_AtomicSave ==
    HoldsDataset(prior) /\ prior.readable /\ loaded # NotLoaded =>
        \/ loaded = Returned(json_load(prior.content))
        \/ pc \in {"writing", "done", "raised"} /\ loaded = Returned(servants)

\* C2 as stated: load_servant_data raises for no file state, and gives the
\* empty dataset for an absent or corrupt file.
C2_LoadNeverRaises ==
    [][loaded' # loaded =>
          /\ loaded'.raised = "None"
          /\ ~HoldsDataset(file) => loaded'.value = <<>>]_vars

\* C3 as stated: get_servant answers 200 with the first record of the dataset
\* that has the id, and 404 when the dataset (empty for a missing or corrupt
\* file) has none.
C3_GetById ==
    [][resp' # resp /\ resp'.op = "get_servant" =>
          LET d == DatasetOf(file)
              hits == {i \in 1..Len(d) : d[i].id = resp'.id}
          IN  IF hits # {}
              THEN /\ resp'.status = 200
                   /\ resp'.body = <<d[CHOOSE i \in hits : \A j \in hits : i <= j]>>
              ELSE resp'.status = 404]_vars

\* C4 as stated: get_servants answers 200 with the records of the file, in
\* order, when the file holds a non-empty dataset, and 404 when the file is
\* missing, corrupt or holds an empty list.
C4_ListAll ==
    [][resp' # resp /\ resp'.op = "get_servants" =>
          LET d == DatasetOf(file)
          IN  IF d # <<>>
              THEN resp'.status = 200 /\ resp'.body = d
              ELSE resp'.status = 404]_vars

====
